---- MODULE Spec2Model ----
(***************************************************************************)
(* Model of the billing API handlers (AWS Lambda functions) that write to  *)
(* a MongoDB document store and to the Alegra billing provider:            *)
(*   create-invoice/app.py  create_invoice                                 *)
(*   delete-invoice/app.py  delete_invoice                                 *)
(*   get-invoice/app.py     get_invoice, get_invoices                      *)
(*   update-invoice/app.py  update_invoice                                 *)
(*   get-all-invoices/app.py get_invoices                                  *)
(* Every invocation is a process; one step of a process is one stretch of  *)
(* handler code up to and including one call to a system that invocations  *)
(* share (MongoDB, Alegra).  Invocations interleave at these calls.        *)
(***************************************************************************)
EXTENDS Integers, Sequences, FiniteSets, TLC

\* ------------------------------------------------------------------ bounds
\* Number of handler invocations, which may run concurrently.
NumProcs == 2
\* Number of invoice documents with an ObjectId key that the collection may
\* hold before any invocation (written by another client of the database).
NumSeeded == 1

Procs == 1..NumProcs
\* ObjectId values are numbered: 1..NumSeeded are those of the seeded
\* documents, the following ones are generated by ObjectId() in
\* create_invoice, at most one per invocation.  Requests name the seeded ones,
\* the first generated one, or a string that is no ObjectId.

\* ------------------------------------------------------- identifiers, values
\* An identifier string is <<"hex", n>> (a 24 character hexadecimal string,
\* the form str(ObjectId()) yields) or <<"raw", n>> (any other string, for
\* instance a provider number such as "17").
HexIds == {<<"hex", n>> : n \in 1..NumSeeded + 1}
RawIds == {<<"raw", 1>>}
PathIds == HexIds \cup RawIds

\* bson.ObjectId(s): an ObjectId when s is a 24 character hexadecimal string,
\* otherwise bson.errors.InvalidId is raised.
ValidObjectIdString(s) == s[1] = "hex"
ObjectId(s) == <<"oid", s[2]>>

\* A document key of type string.  MongoDB compares _id by type and value: a
\* string never equals an ObjectId.
StrKey(s) == <<"str", s>>

\* str(x) of an ObjectId is its hexadecimal string.
StrOfObjectId(k) == <<"hex", k[2]>>

\* The message of a response: a text and the payload fields it names.
Msg(text) == [text |-> text, fields |-> {}]
FieldMsg(fields) == [text |-> "validation", fields |-> fields]

\* pydantic parses a date string of the payload into a datetime object.
ParseDatetime(v) == <<"datetime", v[2]>>
DateKeys == {"date", "dueDate", "created_at", "updated_at"}
\* datetime.utcnow()
UtcNow == <<"datetime", 0>>

\* json.dumps of the standard library (used by requests for json=...) raises
\* TypeError on a datetime object.
JsonEncodable(payload) ==
    \A k \in DOMAIN payload \cap DateKeys : payload[k][1] # "datetime"

\* json.dumps(body, default=str): what the standard encoder cannot encode
\* (datetime, ObjectId) is replaced by its str().
DumpValue(k, v) ==
    IF k \in DateKeys THEN <<"str", v[2]>>
    ELSE IF k = "_id" /\ v[1] = "oid" THEN StrKey(StrOfObjectId(v))
    ELSE v
DumpDoc(d) == [k \in DOMAIN d |-> DumpValue(k, d[k])]
\* The documents of a listing are encoded one by one.
JsonDumpsDefaultStr(body) ==
    [k \in DOMAIN body |->
        IF k = "mongodb_invoices" THEN {DumpDoc(d) : d \in body[k]}
        ELSE DumpValue(k, body[k])]

\* dict.update: the keys of extra replace those of body.
DictUpdate(body, extra) == extra @@ body

data_response(status_code, message, extra_data) ==
    [statusCode |-> status_code,
     body |-> JsonDumpsDefaultStr(DictUpdate("message" :> message, extra_data))]

\* None, and the empty dict: both are falsy and both have no keys.
None == <<>>
Falsy(d) == DOMAIN d = {}

\* ------------------------------------------------------------- payloads
\* class Contact(BaseModel)
ContactFields ==
    {"nameObject", "identificationObject", "kindOfPerson", "regime",
     "name", "mobile", "email"}
\* class Invoice(BaseModel) of create-invoice/app.py: there is no total field.
InvoiceFields ==
    {"client", "paymentForm", "items", "payments", "dueDate", "date"}

Restrict(f, S) == [k \in DOMAIN f \cap S |-> f[k]]

\* pydantic's BaseModel(**data): the required fields that data lacks (a
\* ValidationError lists them); fields the model does not declare are ignored.
MissingFields(data, fields) == fields \ DOMAIN data

\* Contact(**contact_data).dict()
ContactDict(data) == Restrict(data, ContactFields)

\* Invoice(**invoice_data).dict(): the declared fields only, dueDate and date
\* parsed into datetime objects.
InvoiceDict(data) ==
    [k \in InvoiceFields |->
        IF k \in {"dueDate", "date"} THEN ParseDatetime(data[k]) ELSE data[k]]

\* The request payloads the model draws from.
Item1 == [id |-> 1, name |-> "item", discount |-> 0, price |-> 10, quantity |-> 2]
Totals == {0, 20}

ValidContact ==
    [nameObject |-> "no", identificationObject |-> "io", kindOfPerson |-> "kp",
     regime |-> "re", name |-> "na", mobile |-> "mo", email |-> "em"]
IncompleteContact == Restrict(ValidContact, ContactFields \ {"email"})

\* An invoice draft as the caller sends it: dates are strings, the client is a
\* dict, and a precomputed total comes with the items.
Draft(client, items, total) ==
    [client |-> client, paymentForm |-> "cash", items |-> items,
     payments |-> <<>>, dueDate |-> <<"str", 2>>, date |-> <<"str", 1>>,
     total |-> total]
EmbeddedClient == [name |-> "na"]
LinkedClient == [id |-> <<"raw", 1>>]
ValidDrafts == {Draft(EmbeddedClient, <<Item1>>, t) : t \in Totals}
NoClientDraft == Restrict(Draft(EmbeddedClient, <<Item1>>, 20), InvoiceFields \ {"client"})

\* json.loads(event["body"]) of a create request.
CreateBodies ==
    {[contact |-> ValidContact, invoice |-> d] : d \in ValidDrafts}
    \cup {[contact |-> ValidContact, invoice |-> NoClientDraft],
          [contact |-> ValidContact, invoice |-> None],
          [contact |-> IncompleteContact, invoice |-> Draft(EmbeddedClient, <<Item1>>, 20)],
          [contact |-> None, invoice |-> Draft(LinkedClient, <<Item1>>, 20)]}

\* class Invoice(BaseModel) of update-invoice/app.py.
UpdateInvoiceFields == {"client", "date", "total", "items"}

\* Invoice(**body).dict() of update-invoice/app.py: date parsed into a
\* datetime object; items is declared as a plain list, so its elements stay
\* the dicts json.loads produced.
UpdateInvoiceDict(data) ==
    [k \in UpdateInvoiceFields |->
        IF k = "date" THEN ParseDatetime(data[k]) ELSE data[k]]

\* An item as the caller of update sends it (the fields of InvoiceItem).
UpdateItem == [description |-> "item", quantity |-> 2, price |-> 10]

UpdateDraft(client, items, total) ==
    [client |-> client, date |-> <<"str", 1>>, total |-> total, items |-> items]

\* json.loads(event["body"]) of an update request: two drafts without items
\* (the second with a total that is not the sum of its items), one with an
\* item, one that lacks the client.
UpdateBodies ==
    {UpdateDraft("c1", <<>>, 0), UpdateDraft("c2", <<>>, 20),
     UpdateDraft("c1", <<UpdateItem>>, 20),
     Restrict(UpdateDraft("c1", <<>>, 0), UpdateInvoiceFields \ {"client"})}

\* ---------------------------------------------------------------- state
VARIABLES
    pc,              \* pc[p]: where invocation p stands in its handler
    req,             \* req[p]: the event of invocation p (handler, path id, body)
    loc,             \* loc[p]: the handler's local variables
    log,             \* log[p]: the calls p made to external systems, in order
    resp,            \* resp[p]: the response p returned
    invoices,        \* MongoDB collection "invoices": a set of documents
    contacts,        \* MongoDB collection "contacts": a set of documents
    alegraInvoices,  \* the provider's invoices: records [id, data]
    alegraContacts,  \* the provider's contacts: ids
    nextOid,         \* number of the next value of ObjectId()
    nextAlegraId     \* number of the next id the provider issues

vars == <<pc, req, loc, log, resp, invoices, contacts, alegraInvoices,
          alegraContacts, nextOid, nextAlegraId>>

\* keys holds the _id values of the invoices collection at the moment the
\* invocation starts (kept for stating the properties, read by no handler).
NoReq == [op |-> "none", id |-> <<"raw", 0>>, body |-> None, keys |-> {}]
Keys(collection) == {d._id : d \in collection}
NoLoc == [alegra_contact_id |-> <<"cid", 0>>, contact_data |-> None, invoice |-> None,
          local_id |-> <<"raw", 0>>, invoices |-> {}]
NoResp == [statusCode |-> 0, body |-> None]

\* A call to an external system: ok says that it returned without raising,
\* sent that a request reached the system, wrote that it changed the system.
Ev(sys, op, ok, sent, wrote) ==
    [sys |-> sys, op |-> op, ok |-> ok, sent |-> sent, wrote |-> wrote]

\* A document another client of the database inserted without an _id of its
\* own: MongoDB keys it by a generated ObjectId.
SeedDoc(n) ==
    [_id |-> <<"oid", n>>, client |-> "client", date |-> <<"datetime", 1>>,
     total |-> 0, items |-> <<>>]
SeedDocs == {SeedDoc(n) : n \in 1..NumSeeded}
\* The invoice the provider may hold before any invocation.  The handlers
\* send the path parameter to the provider only after ObjectId() accepted it,
\* so only an invoice whose provider id has that form can be reached.
SeedAlegra == {[id |-> <<"hex", 1>>, data |-> "seed"]}

Init ==
    /\ pc = [p \in Procs |-> "idle"]
    /\ req = [p \in Procs |-> NoReq]
    /\ loc = [p \in Procs |-> NoLoc]
    /\ log = [p \in Procs |-> <<>>]
    /\ resp = [p \in Procs |-> NoResp]
    /\ invoices \in {{}, SeedDocs}
    /\ contacts = {}
    /\ alegraInvoices \in {{}, SeedAlegra}
    /\ alegraContacts = {}
    /\ nextOid = NumSeeded + 1
    /\ nextAlegraId = 1

\* The handler returns response r.
Return(p, r) ==
    /\ pc' = [pc EXCEPT ![p] = "done"]
    /\ resp' = [resp EXCEPT ![p] = r]

\* An exception leaves the handler: the invocation ends without a response,
\* the caller is handed the exception.
Raise(p, exc) ==
    /\ pc' = [pc EXCEPT ![p] = "raised"]
    /\ resp' = [resp EXCEPT ![p] = exc]

Goto(p, label) ==
    /\ pc' = [pc EXCEPT ![p] = label]
    /\ UNCHANGED resp

Logged(p, e) == log' = [log EXCEPT ![p] = Append(@, e)]

\* HTTP status codes of fastapi.status used by the handlers.
HTTP_200_OK == 200
HTTP_201_CREATED == 201
HTTP_400_BAD_REQUEST == 400
HTTP_404_NOT_FOUND == 404
HTTP_424_FAILED_DEPENDENCY == 424
HTTP_500_INTERNAL_SERVER_ERROR == 500

\* ------------------------------------------------------- create_invoice
\* The except clauses of create_invoice, by class of the exception raised:
\* ValidationError -> 400 naming the fields, HTTPException -> its own status,
\* RequestException and any other Exception -> 500 with str(err).
CreateExcept(exc) ==
    CASE exc.class = "ValidationError" ->
            data_response(HTTP_400_BAD_REQUEST, FieldMsg(exc.fields), None)
      [] exc.class = "HTTPException" ->
            data_response(exc.status, Msg(exc.detail), None)
      [] exc.class = "RequestException" ->
            data_response(HTTP_500_INTERNAL_SERVER_ERROR, Msg(exc.detail), None)
      [] OTHER ->
            data_response(HTTP_500_INTERNAL_SERVER_ERROR, Msg(exc.detail), None)

Exc(class, detail) == [class |-> class, detail |-> detail, status |-> 0, fields |-> {}]
ValidationError(fields) ==
    [class |-> "ValidationError", detail |-> "validation", status |-> 0, fields |-> fields]
HTTPException(status, detail) ==
    [class |-> "HTTPException", detail |-> detail, status |-> status, fields |-> {}]

\* requests.post(url, json=payload): the ways the call can end.  The body is
\* encoded before anything is sent, so a payload json.dumps rejects ends in a
\* TypeError and no request; otherwise the request fails (ConnectionError) or
\* the provider answers, with an error status ("HTTPError") or with success.
PostOutcomes(payload) ==
    IF JsonEncodable(payload) THEN {"ok", "HTTPError", "ConnectionError"}
    ELSE {"TypeError"}

\* A post whose answer is not checked: raise_for_status() left out.
PostRaisesUnchecked(out) == out \notin {"ok", "HTTPError"}

\* response.raise_for_status(): an answer with an error status is raised as
\* an HTTPError; the other failures were raised by requests.post itself.
PostRaises(out) == out # "ok"

\* The exception a failed post arrives as: HTTPError and ConnectionError are
\* RequestExceptions, TypeError is not.
PostException(out) ==
    IF out \in {"HTTPError", "ConnectionError"} THEN Exc("RequestException", out)
    ELSE Exc(out, out)

\* Lines 210-228: the body is parsed and validated.  raise ValidationError(
\* "...") itself raises TypeError (pydantic's ValidationError cannot be built
\* from a message), which the last except clause turns into a 500.
CreateValidate(body) ==
    IF Falsy(body.contact) THEN Exc("TypeError", "ValidationError()")
    ELSE IF MissingFields(body.contact, ContactFields) # {}
        THEN ValidationError(MissingFields(body.contact, ContactFields))
    ELSE IF Falsy(body.invoice) THEN Exc("TypeError", "ValidationError()")
    ELSE IF MissingFields(body.invoice, InvoiceFields) # {}
        THEN ValidationError(MissingFields(body.invoice, InvoiceFields))
    ELSE Exc("none", "")

\* Lines 209-232: the invocation validates the body and calls the provider
\* for the contact, create_contact_in_alegra(contact.dict(), ...).
StartCreate(p) ==
    /\ pc[p] = "idle"
    /\ \E body \in CreateBodies :
        LET exc == CreateValidate(body) IN
        /\ req' = [req EXCEPT ![p] = [op |-> "create", id |-> NoReq.id, body |-> body,
                                       keys |-> Keys(invoices)]]
        /\ IF exc.class # "none"
           THEN /\ Return(p, CreateExcept(exc))
                /\ UNCHANGED <<loc, log, alegraContacts, nextAlegraId>>
           ELSE \E out \in PostOutcomes(ContactDict(body.contact)) :
                IF PostRaises(out)
                THEN /\ Logged(p, Ev("alegra", "create_contact", FALSE,
                                     out # "TypeError", FALSE))
                     /\ Return(p, CreateExcept(PostException(out)))
                     /\ UNCHANGED <<loc, alegraContacts, nextAlegraId>>
                ELSE /\ alegraContacts' =
                            IF out = "ok"
                            THEN alegraContacts \cup {<<"cid", nextAlegraId>>}
                            ELSE alegraContacts
                     /\ nextAlegraId' = nextAlegraId + 1
                     /\ loc' = [loc EXCEPT
                            ![p].contact_data = body.contact,
                            ![p].invoice = InvoiceDict(body.invoice),
                            ![p].alegra_contact_id = <<"cid", nextAlegraId>>]
                     /\ Logged(p, Ev("alegra", "create_contact", out = "ok", TRUE,
                                     out = "ok"))
                     /\ Goto(p, "create_insert_contact")
    /\ UNCHANGED <<invoices, contacts, alegraInvoices, nextOid>>

\* get_secret("mongodb") and database_connection(secrets): either raises
\* HTTPException(424) when the secret or the connection data cannot be had.
DependencyOutcomes == {"ok", "failed"}
DependencyError == HTTPException(HTTP_424_FAILED_DEPENDENCY, "dependency")

\* collection.insert_one(doc): the server refuses a document whose _id is in
\* the collection (DuplicateKeyError), and any operation raises when the
\* server cannot be reached.
InsertOutcomes(collection, doc) ==
    IF \E d \in collection : d._id = doc._id THEN {"DuplicateKeyError"}
    ELSE {"ok", "ServerSelectionTimeoutError"}

\* A store error caught and dropped around the call.
StoreErrorSwallowed(out) == FALSE

\* pymongo raises its errors; no handler catches them before the last except
\* clause.
StoreRaises(out) == out # "ok"

\* A contact saved under a key generated locally.
ContactDocLocalKey(contact_data, alegra_contact_id) ==
    [_id |-> StrKey(<<"hex", 0>>), created_at |-> UtcNow, updated_at |-> UtcNow]
        @@ contact_data

\* Lines 240-244: the contact is saved under the provider's contact id.
ContactDoc(contact_data, alegra_contact_id) ==
    [_id |-> alegra_contact_id, created_at |-> UtcNow, updated_at |-> UtcNow]
        @@ contact_data

\* Lines 234-244.
CreateInsertContact(p) ==
    /\ pc[p] = "create_insert_contact"
    /\ \E dep \in DependencyOutcomes :
        IF dep # "ok"
        THEN /\ Logged(p, Ev("secrets", "get_secret", FALSE, TRUE, FALSE))
             /\ Return(p, CreateExcept(DependencyError))
             /\ UNCHANGED contacts
        ELSE LET doc == ContactDoc(loc[p].contact_data, loc[p].alegra_contact_id) IN
             \E out \in InsertOutcomes(contacts, doc) :
             IF StoreRaises(out)
             THEN /\ Logged(p, Ev("mongo", "insert_contact", FALSE, TRUE, FALSE))
                  /\ Return(p, CreateExcept(Exc(out, out)))
                  /\ UNCHANGED contacts
             ELSE /\ contacts' = IF out = "ok" THEN contacts \cup {doc} ELSE contacts
                  /\ Logged(p, Ev("mongo", "insert_contact", out = "ok", TRUE, out = "ok"))
                  /\ Goto(p, "create_insert_invoice")
    /\ UNCHANGED <<req, loc, invoices, alegraInvoices, alegraContacts, nextOid,
                   nextAlegraId>>

\* Line 247: invoice.client = {"id": alegra_contact_id}
WithClient(invoice, alegra_contact_id) ==
    [invoice EXCEPT !["client"] = [id |-> alegra_contact_id]]

\* Lines 251-254: invoice.dict() keyed by str(ObjectId()), a string.
InvoiceDoc(invoice, oid) ==
    [_id |-> StrKey(StrOfObjectId(oid)), created_at |-> UtcNow,
     updated_at |-> UtcNow] @@ invoice

\* Lines 246-255.
CreateInsertInvoice(p) ==
    /\ pc[p] = "create_insert_invoice"
    /\ LET invoice == WithClient(loc[p].invoice, loc[p].alegra_contact_id)
           oid == <<"oid", nextOid>>
           doc == InvoiceDoc(invoice, oid)
       IN
       /\ nextOid' = nextOid + 1
       /\ loc' = [loc EXCEPT ![p].invoice = invoice,
                             ![p].local_id = StrOfObjectId(oid)]
       /\ \E out \in InsertOutcomes(invoices, doc) :
            IF StoreRaises(out)
            THEN /\ Logged(p, Ev("mongo", "insert_invoice", FALSE, TRUE, FALSE))
                 /\ Return(p, CreateExcept(Exc(out, out)))
                 /\ UNCHANGED invoices
            ELSE /\ invoices' = IF out = "ok" THEN invoices \cup {doc} ELSE invoices
                 /\ Logged(p, Ev("mongo", "insert_invoice", out = "ok", TRUE, out = "ok"))
                 /\ Goto(p, "create_remote")
    /\ UNCHANGED <<req, contacts, alegraInvoices, alegraContacts, nextAlegraId>>

\* The invoice the provider answers a create with: its own id and the data.
AlegraInvoice(n, payload) == [id |-> <<"raw", n>>, data |-> payload]

\* Lines 257-261: create_invoice_in_alegra(invoice.dict(), ...).  invoice.dict()
\* holds dueDate and date as datetime objects.
CreateInvoiceInAlegra(p) ==
    /\ pc[p] = "create_remote"
    /\ \E out \in PostOutcomes(loc[p].invoice) :
        IF PostRaises(out)
        THEN /\ Logged(p, Ev("alegra", "create_invoice", FALSE, out # "TypeError", FALSE))
             /\ Return(p, CreateExcept(PostException(out)))
             /\ UNCHANGED <<alegraInvoices, nextAlegraId>>
        ELSE LET alegra_invoice == AlegraInvoice(nextAlegraId, loc[p].invoice) IN
             /\ alegraInvoices' =
                    IF out = "ok" THEN alegraInvoices \cup {alegra_invoice}
                    ELSE alegraInvoices
             /\ nextAlegraId' = nextAlegraId + 1
             /\ Logged(p, Ev("alegra", "create_invoice", out = "ok", TRUE, out = "ok"))
             /\ Return(p, data_response(HTTP_201_CREATED,
                     Msg("Invoice created successfully"), alegra_invoice))
    /\ UNCHANGED <<req, loc, invoices, contacts, alegraContacts, nextOid>>

\* ------------------------------------------------ the other handlers
\* The except clauses of delete_invoice and get_invoice: HTTPException -> its
\* own status and detail, any other Exception -> 500 with str(err).
HandlerExcept(exc) ==
    CASE exc.class = "HTTPException" ->
            data_response(exc.status, Msg(exc.detail), None)
      [] OTHER ->
            data_response(HTTP_500_INTERNAL_SERVER_ERROR, Msg(exc.detail), None)

\* A filter built from the path parameter as it comes, a string.
LookupKeyAsString(invoice_id) == StrKey(invoice_id)

\* The key of the filter {"_id": ObjectId(invoice_id)} that delete_one and
\* find_one are given.
LookupKey(invoice_id) == ObjectId(invoice_id)

\* The documents of the collection that the filter {"_id": key} selects.
Matching(collection, key) == {d \in collection : d._id = key}

\* A read or a write of one document by key: it is answered, or it raises
\* when the server cannot be reached.
StoreOutcomes == {"ok", "ServerSelectionTimeoutError"}

\* The JSON body of a provider answer that is no invoice: its status code and
\* a message of its own.
ProviderPayload(code) == [code |-> code, message |-> Msg("provider")]

\* requests.delete(url) or requests.get(url) and response.json(): the call
\* raises (the request fails, or the answer is no JSON), or the provider
\* answers in JSON, with an error of its own (such as 401) or serving the
\* request.
CallOutcomes == {"raises", "error_status", "served"}
ProviderError == ProviderPayload(401)

AlegraHas(id) == \E r \in alegraInvoices : r.id = id

\* invoice_id = event["pathParameters"]["invoice_id"]: the argument of
\* delete_invoice_in_alegra, update_invoice_in_alegra and
\* get_invoice_details_from_alegra, which put it into the provider's URL.
invoice_id(p) == req[p].id

\* --------------------------------------------------------- delete_invoice
\* Lines 144-157: get_secret and database_connection, then
\* delete_one({"_id": ObjectId(invoice_id)}); ObjectId raises InvalidId before
\* the store is called; deleted_count 0 raises the 404.
StartDelete(p) ==
    /\ pc[p] = "idle"
    /\ \E id \in PathIds, dep \in DependencyOutcomes :
        /\ req' = [req EXCEPT ![p] = [op |-> "delete", id |-> id, body |-> None,
                                       keys |-> Keys(invoices)]]
        /\ IF dep # "ok"
           THEN /\ Logged(p, Ev("secrets", "get_secret", FALSE, TRUE, FALSE))
                /\ Return(p, HandlerExcept(DependencyError))
                /\ UNCHANGED invoices
           ELSE IF ~ValidObjectIdString(id)
           THEN /\ Return(p, HandlerExcept(Exc("InvalidId", "InvalidId")))
                /\ UNCHANGED <<log, invoices>>
           ELSE \E out \in StoreOutcomes :
                LET hit == Matching(invoices, LookupKey(id)) IN
                CASE StoreRaises(out) ->
                        /\ Logged(p, Ev("mongo", "delete_one", FALSE, TRUE, FALSE))
                        /\ Return(p, HandlerExcept(Exc(out, out)))
                        /\ UNCHANGED invoices
                  [] ~StoreRaises(out) /\ hit = {} ->
                        /\ Logged(p, Ev("mongo", "delete_one", TRUE, TRUE, FALSE))
                        /\ Return(p, HandlerExcept(HTTPException(
                                HTTP_404_NOT_FOUND, "Invoice not found in MongoDB")))
                        /\ UNCHANGED invoices
                  [] OTHER ->
                        /\ invoices' = invoices \ hit
                        /\ Logged(p, Ev("mongo", "delete_one", TRUE, TRUE, TRUE))
                        /\ Goto(p, "delete_remote")
    /\ UNCHANGED <<loc, contacts, alegraInvoices, alegraContacts, nextOid,
                   nextAlegraId>>

\* Lines 159-163 with delete_invoice_in_alegra (87-104): the path parameter is
\* the id sent to the provider; whatever JSON the provider answers is merged
\* into a 200 response, an exception ends in the last except clause.
DeleteInvoiceInAlegra(p) ==
    /\ pc[p] = "delete_remote"
    /\ \E out \in CallOutcomes :
        CASE out = "raises" ->
                /\ Logged(p, Ev("alegra", "delete_invoice", FALSE, TRUE, FALSE))
                /\ Return(p, HandlerExcept(Exc("ConnectionError", "ConnectionError")))
                /\ UNCHANGED alegraInvoices
          [] out = "error_status" ->
                /\ Logged(p, Ev("alegra", "delete_invoice", TRUE, TRUE, FALSE))
                /\ Return(p, data_response(HTTP_200_OK,
                        Msg("Invoice deleted successfully"),
                        ProviderError))
                /\ UNCHANGED alegraInvoices
          [] out = "served" /\ ~AlegraHas(invoice_id(p)) ->
                /\ Logged(p, Ev("alegra", "delete_invoice", TRUE, TRUE, FALSE))
                /\ Return(p, data_response(HTTP_200_OK,
                        Msg("Invoice deleted successfully"),
                        ProviderPayload(HTTP_404_NOT_FOUND)))
                /\ UNCHANGED alegraInvoices
          [] OTHER ->
                /\ alegraInvoices' = {r \in alegraInvoices : r.id # invoice_id(p)}
                /\ Logged(p, Ev("alegra", "delete_invoice", TRUE, TRUE, TRUE))
                /\ Return(p, data_response(HTTP_200_OK,
                        Msg("Invoice deleted successfully"),
                        ProviderPayload(HTTP_200_OK)))
    /\ UNCHANGED <<req, loc, invoices, contacts, alegraContacts, nextOid,
                   nextAlegraId>>

\* ------------------------------------------------------------ get_invoice
\* Lines 200-215 of get-invoice/app.py: get_secret and database_connection,
\* then find_one({"_id": ObjectId(invoice_id)}); a document found is returned
\* at once, none found leads to the provider.
StartGet(p) ==
    /\ pc[p] = "idle"
    /\ \E id \in PathIds, dep \in DependencyOutcomes :
        /\ req' = [req EXCEPT ![p] = [op |-> "get", id |-> id, body |-> None,
                                       keys |-> Keys(invoices)]]
        /\ IF dep # "ok"
           THEN /\ Logged(p, Ev("secrets", "get_secret", FALSE, TRUE, FALSE))
                /\ Return(p, HandlerExcept(DependencyError))
           ELSE IF ~ValidObjectIdString(id)
           THEN /\ Return(p, HandlerExcept(Exc("InvalidId", "InvalidId")))
                /\ UNCHANGED log
           ELSE \E out \in StoreOutcomes :
                LET hit == Matching(invoices, LookupKey(id)) IN
                CASE StoreRaises(out) ->
                        /\ Logged(p, Ev("mongo", "find_one", FALSE, TRUE, FALSE))
                        /\ Return(p, HandlerExcept(Exc(out, out)))
                  [] ~StoreRaises(out) /\ hit = {} ->
                        /\ Logged(p, Ev("mongo", "find_one", TRUE, TRUE, FALSE))
                        /\ Goto(p, "get_remote")
                  [] OTHER ->
                        \E invoice \in hit :
                        /\ Logged(p, Ev("mongo", "find_one", TRUE, TRUE, FALSE))
                        /\ Return(p, data_response(HTTP_200_OK,
                                Msg("Invoice retrieved successfully"), invoice))
    /\ UNCHANGED <<loc, invoices, contacts, alegraInvoices, alegraContacts,
                   nextOid, nextAlegraId>>

\* Lines 210-215 with get_invoice_details_from_alegra (105-124): only the
\* provider's status 404 raises the 404; any other answer in JSON is returned
\* as the invoice.
GetInvoiceDetailsFromAlegra(p) ==
    /\ pc[p] = "get_remote"
    /\ \E out \in CallOutcomes :
        CASE out = "raises" ->
                /\ Logged(p, Ev("alegra", "get_invoice", FALSE, TRUE, FALSE))
                /\ Return(p, HandlerExcept(Exc("ConnectionError", "ConnectionError")))
          [] out = "error_status" ->
                /\ Logged(p, Ev("alegra", "get_invoice", TRUE, TRUE, FALSE))
                /\ Return(p, data_response(HTTP_200_OK,
                        Msg("Invoice retrieved successfully"),
                        ProviderError))
          [] out = "served" /\ ~AlegraHas(invoice_id(p)) ->
                /\ Logged(p, Ev("alegra", "get_invoice", FALSE, TRUE, FALSE))
                /\ Return(p, HandlerExcept(HTTPException(
                        HTTP_404_NOT_FOUND, "Invoice not found in Alegra")))
          [] OTHER ->
                \E r \in {x \in alegraInvoices : x.id = invoice_id(p)} :
                /\ Logged(p, Ev("alegra", "get_invoice", TRUE, TRUE, FALSE))
                /\ Return(p, data_response(HTTP_200_OK,
                        Msg("Invoice retrieved successfully"), r))
    /\ UNCHANGED <<req, loc, invoices, contacts, alegraInvoices, alegraContacts,
                   nextOid, nextAlegraId>>

\* --------------------------------------------------------- update_invoice
\* The except clauses of update_invoice: ValidationError -> 400 naming the
\* fields, HTTPException -> its own status, any other Exception -> 500.
UpdateExcept(exc) ==
    CASE exc.class = "ValidationError" ->
            data_response(HTTP_400_BAD_REQUEST, FieldMsg(exc.fields), None)
      [] exc.class = "HTTPException" ->
            data_response(exc.status, Msg(exc.detail), None)
      [] OTHER ->
            data_response(HTTP_500_INTERNAL_SERVER_ERROR, Msg(exc.detail), None)

\* Lines 158-159: invoice.dict() with updated_at, the argument of $set.
InvoiceData(invoice) == [updated_at |-> UtcNow] @@ invoice

\* An update that only adds the fields the document lacks.
SetMissingFields(doc, fields) == doc @@ fields

\* update_one(filter, {"$set": fields}) on a matched document: the fields
\* named are replaced or added, the others stay.  There is no upsert.
SetFields(doc, fields) == fields @@ doc

\* An update_one that inserts the document when the filter matches none.
UpdateOneUpsert(collection, key, fields) ==
    IF Matching(collection, key) = {}
    THEN collection \cup {[_id |-> key] @@ fields}
    ELSE (collection \ Matching(collection, key))
            \cup {SetFields(d, fields) : d \in Matching(collection, key)}

\* invoices_collection.update_one({"_id": key}, {"$set": fields}): the
\* collection afterwards.  upsert is not passed, so nothing is inserted.
UpdateOne(collection, key, fields) ==
    (collection \ Matching(collection, key))
        \cup {SetFields(d, fields) : d \in Matching(collection, key)}

\* Lines 147-166: the body is validated by Invoice(**body), then get_secret
\* and database_connection, then update_one({"_id": ObjectId(invoice_id)},
\* {"$set": invoice_data}); matched_count 0 raises the 404.
StartUpdate(p) ==
    /\ pc[p] = "idle"
    /\ \E id \in PathIds, body \in UpdateBodies, dep \in DependencyOutcomes :
        LET missing == MissingFields(body, UpdateInvoiceFields) IN
        /\ req' = [req EXCEPT ![p] = [op |-> "update", id |-> id, body |-> body,
                                       keys |-> Keys(invoices)]]
        /\ IF missing # {}
           THEN /\ Return(p, UpdateExcept(ValidationError(missing)))
                /\ UNCHANGED <<loc, log, invoices>>
           ELSE IF dep # "ok"
           THEN /\ Logged(p, Ev("secrets", "get_secret", FALSE, TRUE, FALSE))
                /\ Return(p, UpdateExcept(DependencyError))
                /\ UNCHANGED <<loc, invoices>>
           ELSE IF ~ValidObjectIdString(id)
           THEN /\ Return(p, UpdateExcept(Exc("InvalidId", "InvalidId")))
                /\ UNCHANGED <<loc, log, invoices>>
           ELSE \E out \in StoreOutcomes :
                LET hit == Matching(invoices, LookupKey(id))
                    invoice == UpdateInvoiceDict(body)
                IN
                CASE StoreRaises(out) ->
                        /\ Logged(p, Ev("mongo", "update_one", FALSE, TRUE, FALSE))
                        /\ Return(p, UpdateExcept(Exc(out, out)))
                        /\ UNCHANGED <<loc, invoices>>
                  [] ~StoreRaises(out) /\ hit = {} ->
                        LET after == UpdateOne(invoices, LookupKey(id),
                                               InvoiceData(invoice))
                        IN
                        /\ invoices' = after
                        /\ Logged(p, Ev("mongo", "update_one", TRUE, TRUE,
                                        after # invoices))
                        /\ Return(p, UpdateExcept(HTTPException(
                                HTTP_404_NOT_FOUND, "Invoice not found in MongoDB")))
                        /\ UNCHANGED loc
                  [] OTHER ->
                        /\ invoices' = UpdateOne(invoices, LookupKey(id),
                                                 InvoiceData(invoice))
                        /\ loc' = [loc EXCEPT ![p].invoice = invoice]
                        /\ Logged(p, Ev("mongo", "update_one", TRUE, TRUE, TRUE))
                        /\ Goto(p, "update_remote")
    /\ UNCHANGED <<contacts, alegraInvoices, alegraContacts, nextOid, nextAlegraId>>

\* invoice.date.strftime("%Y-%m-%d"): the day of the datetime as a string,
\* the time of day is dropped.
StrftimeYmd(v) == <<"ymd", v[2]>>

\* Lines 172-178: item.description, item.quantity, item.price for item in
\* invoice.items.  The elements of items are dicts, which have no such
\* attributes: the first element raises AttributeError; an empty list raises
\* nothing.
ItemAttributeError(items) == Len(items) > 0

\* Lines 169-180, for a list of items that raised nothing (an empty one).
AlegraInvoiceData(invoice) ==
    [date |-> StrftimeYmd(invoice.date), client |-> invoice.client,
     items |-> <<>>, total |-> invoice.total]

\* Lines 168-184 with update_invoice_in_alegra (87-105): the path parameter
\* is the id sent to the provider; whatever JSON the provider answers is
\* merged into a 200 response, an exception ends in the last except clause.
UpdateInvoiceInAlegra(p) ==
    /\ pc[p] = "update_remote"
    /\ IF ItemAttributeError(loc[p].invoice.items)
       THEN /\ Return(p, UpdateExcept(Exc("AttributeError", "AttributeError")))
            /\ UNCHANGED <<log, alegraInvoices>>
       ELSE LET alegra_invoice_data == AlegraInvoiceData(loc[p].invoice)
                alegra_invoice == [id |-> invoice_id(p), data |-> alegra_invoice_data]
            IN
            \E out \in CallOutcomes :
            CASE out = "raises" ->
                    /\ Logged(p, Ev("alegra", "update_invoice", FALSE, TRUE, FALSE))
                    /\ Return(p, UpdateExcept(Exc("ConnectionError", "ConnectionError")))
                    /\ UNCHANGED alegraInvoices
              [] out = "error_status" ->
                    /\ Logged(p, Ev("alegra", "update_invoice", TRUE, TRUE, FALSE))
                    /\ Return(p, data_response(HTTP_200_OK,
                            Msg("Invoice updated successfully"), ProviderError))
                    /\ UNCHANGED alegraInvoices
              [] out = "served" /\ ~AlegraHas(invoice_id(p)) ->
                    /\ Logged(p, Ev("alegra", "update_invoice", TRUE, TRUE, FALSE))
                    /\ Return(p, data_response(HTTP_200_OK,
                            Msg("Invoice updated successfully"),
                            ProviderPayload(HTTP_404_NOT_FOUND)))
                    /\ UNCHANGED alegraInvoices
              [] OTHER ->
                    /\ alegraInvoices' =
                            {r \in alegraInvoices : r.id # invoice_id(p)}
                                \cup {alegra_invoice}
                    /\ Logged(p, Ev("alegra", "update_invoice", TRUE, TRUE, TRUE))
                    /\ Return(p, data_response(HTTP_200_OK,
                            Msg("Invoice updated successfully"), alegra_invoice))
    /\ UNCHANGED <<req, loc, invoices, contacts, alegraContacts, nextOid,
                   nextAlegraId>>

\* ----------------------------------------- get_invoices (get-invoice/app.py)
\* Lines 165-171: get_secret and database_connection, then
\* list(invoices_collection.find()).
StartGetInvoices(p) ==
    /\ pc[p] = "idle"
    /\ req' = [req EXCEPT ![p] = [op |-> "get_invoices", id |-> NoReq.id,
                                   body |-> None, keys |-> Keys(invoices)]]
    /\ \E dep \in DependencyOutcomes :
        IF dep # "ok"
        THEN /\ Logged(p, Ev("secrets", "get_secret", FALSE, TRUE, FALSE))
             /\ Return(p, HandlerExcept(DependencyError))
             /\ UNCHANGED loc
        ELSE \E out \in StoreOutcomes :
             IF StoreRaises(out)
             THEN /\ Logged(p, Ev("mongo", "find", FALSE, TRUE, FALSE))
                  /\ Return(p, HandlerExcept(Exc(out, out)))
                  /\ UNCHANGED loc
             ELSE /\ loc' = [loc EXCEPT ![p].invoices = invoices]
                  /\ Logged(p, Ev("mongo", "find", TRUE, TRUE, FALSE))
                  /\ Goto(p, "list_remote")
    /\ UNCHANGED <<invoices, contacts, alegraInvoices, alegraContacts, nextOid,
                   nextAlegraId>>

\* Lines 173-181: the two collections side by side under their own keys.
CombinedInvoices(local, remote) ==
    [mongodb_invoices |-> local, alegra_invoices |-> remote]

\* Lines 173-186 with get_invoices_from_alegra (87-102): whatever JSON the
\* provider answers is returned as its list of invoices.
GetInvoicesFromAlegra(p) ==
    /\ pc[p] = "list_remote"
    /\ \E out \in CallOutcomes :
        CASE out = "raises" ->
                /\ Logged(p, Ev("alegra", "list_invoices", FALSE, TRUE, FALSE))
                /\ Return(p, HandlerExcept(Exc("ConnectionError", "ConnectionError")))
          [] out = "error_status" ->
                /\ Logged(p, Ev("alegra", "list_invoices", TRUE, TRUE, FALSE))
                /\ Return(p, data_response(HTTP_200_OK,
                        Msg("Invoices retrieved successfully"),
                        CombinedInvoices(loc[p].invoices, ProviderError)))
          [] OTHER ->
                /\ Logged(p, Ev("alegra", "list_invoices", TRUE, TRUE, FALSE))
                /\ Return(p, data_response(HTTP_200_OK,
                        Msg("Invoices retrieved successfully"),
                        CombinedInvoices(loc[p].invoices, alegraInvoices)))
    /\ UNCHANGED <<req, loc, invoices, contacts, alegraInvoices, alegraContacts,
                   nextOid, nextAlegraId>>

\* ------------------------------------ get_invoices (get-all-invoices/app.py)
\* Lines 109-119 with get_invoices_from_alegra (43-74): a provider status
\* other than 200 is raised as an HTTPException, which the handler raises
\* again; any other exception is raised as an HTTPException(500); on success
\* the handler returns a dict with the message and the provider's list, and
\* no statusCode.
GetAllInvoices(p) ==
    /\ pc[p] = "idle"
    /\ req' = [req EXCEPT ![p] = [op |-> "get_all_invoices", id |-> NoReq.id,
                                   body |-> None, keys |-> Keys(invoices)]]
    /\ \E out \in CallOutcomes :
        CASE out = "raises" ->
                /\ Logged(p, Ev("alegra", "list_invoices", FALSE, TRUE, FALSE))
                /\ Raise(p, HTTPException(HTTP_500_INTERNAL_SERVER_ERROR,
                                          "ConnectionError"))
          [] out = "error_status" ->
                /\ Logged(p, Ev("alegra", "list_invoices", FALSE, TRUE, FALSE))
                /\ Raise(p, HTTPException(ProviderError.code, "provider"))
          [] OTHER ->
                /\ Logged(p, Ev("alegra", "list_invoices", TRUE, TRUE, FALSE))
                /\ Return(p, [message |-> Msg("Invoices retrieved successfully"),
                              alegra_invoices |-> alegraInvoices])
    /\ UNCHANGED <<loc, invoices, contacts, alegraInvoices, alegraContacts,
                   nextOid, nextAlegraId>>

\* ------------------------------------------------------------------ spec
Next ==
    \E p \in Procs :
        \/ StartCreate(p)
        \/ CreateInsertContact(p)
        \/ CreateInsertInvoice(p)
        \/ CreateInvoiceInAlegra(p)
        \/ StartDelete(p)
        \/ DeleteInvoiceInAlegra(p)
        \/ StartGet(p)
        \/ GetInvoiceDetailsFromAlegra(p)
        \/ StartUpdate(p)
        \/ UpdateInvoiceInAlegra(p)
        \/ StartGetInvoices(p)
        \/ GetInvoicesFromAlegra(p)
        \/ GetAllInvoices(p)

Spec == Init /\ [][Next]_vars


\* ------------------------------------------------------------ properties
Done(p) == pc[p] = "done"
Status(p) == resp[p].statusCode
Body(p) == resp[p].body
SuccessRange == 200..299

\* The positions in log[p] of the calls op to system sys.
Calls(p, sys, op) ==
    {i \in DOMAIN log[p] : log[p][i].sys = sys /\ log[p][i].op = op}
CallsTo(p, sys) == {i \in DOMAIN log[p] : log[p][i].sys = sys}
Writes(p, sys) == {i \in CallsTo(p, sys) : log[p][i].wrote}
Failed(p, sys) == {i \in CallsTo(p, sys) : ~log[p][i].ok}

\* The secret store and MongoDB answered every call of the invocation.
DependenciesHealthy(p) == Failed(p, "secrets") = {} /\ Failed(p, "mongo") = {}

\* C1: when create_invoice has inserted the invoice into MongoDB and its call
\* to the provider for the invoice then fails, the response has a status in
\* the success range and its body carries the outcome LocalOnly and the local
\* id.
C1_RemoteFailureAnsweredLocalOnly ==
    \A p \in Procs :
        (/\ Done(p)
         /\ req[p].op = "create"
         /\ \E i \in Calls(p, "mongo", "insert_invoice") : log[p][i].wrote
         /\ \E i \in Calls(p, "alegra", "create_invoice") : ~log[p][i].ok)
        => /\ Status(p) \in SuccessRange
           /\ "outcome" \in DOMAIN Body(p)
           /\ Body(p)["outcome"] = "LocalOnly"
           /\ "_id" \in DOMAIN Body(p)
           /\ Body(p)["_id"] = StrKey(loc[p].local_id)

\* C2: once the provider call for the contact has failed in a create_invoice
\* invocation, the invocation is over with an error status, and it has made
\* no insert into either collection and no call for the invoice.
C2_ContactFailureAbortsCreate ==
    \A p \in Procs :
        (/\ req[p].op = "create"
         /\ \E i \in Calls(p, "alegra", "create_contact") : ~log[p][i].ok)
        => /\ Done(p)
           /\ Status(p) >= 400
           /\ CallsTo(p, "mongo") = {}
           /\ Calls(p, "alegra", "create_invoice") = {}
           /\ Writes(p, "alegra") = {}

\* A create_invoice invocation ended by a failed contact call.
C2_Witness ==
    \E p \in Procs :
        /\ Done(p)
        /\ req[p].op = "create"
        /\ \E i \in Calls(p, "alegra", "create_contact") :
                ~log[p][i].ok /\ log[p][i].sent

\* C3: every call of create_invoice to the provider for the invoice comes
\* after the insert of the invoice by the same invocation, and that insert
\* succeeded and put the document into the collection.
C3_RemoteInvoiceAfterLocalInsert ==
    \A p \in Procs :
        \A i \in Calls(p, "alegra", "create_invoice") :
            \E j \in Calls(p, "mongo", "insert_invoice") :
                /\ j < i
                /\ log[p][j].ok
                /\ log[p][j].wrote
                /\ StrKey(loc[p].local_id) \in Keys(invoices)

\* An invocation has called create_invoice_in_alegra after its insert.
C3_Witness ==
    \E p \in Procs :
        /\ Calls(p, "alegra", "create_invoice") # {}
        /\ Calls(p, "mongo", "insert_invoice") # {}

\* The create_invoice invocations that inserted an invoice under local id.
Creators(id) ==
    {q \in Procs :
        /\ req[q].op = "create"
        /\ loc[q].local_id = id
        /\ \E i \in Calls(q, "mongo", "insert_invoice") : log[q][i].wrote}

\* C4: a get_invoice by the local id under which create_invoice stored an
\* invoice (the document being in the collection when the get starts, and the
\* secret store and MongoDB answering) returns 200 with that document.
C4_CreatedInvoiceFoundByGet ==
    \A p \in Procs :
        (/\ Done(p)
         /\ req[p].op = "get"
         /\ Creators(req[p].id) # {}
         /\ StrKey(req[p].id) \in req[p].keys
         /\ DependenciesHealthy(p))
        => /\ Status(p) = HTTP_200_OK
           /\ "_id" \in DOMAIN Body(p)
           /\ Body(p)["_id"] = StrKey(req[p].id)
           /\ CallsTo(p, "alegra") = {}

\* C5: reading an invoice back by the local id create_invoice gave it yields
\* the items and the total of the draft it was created from.
C5_RoundTripItemsAndTotal ==
    \A p \in Procs :
        (/\ Done(p)
         /\ req[p].op = "get"
         /\ StrKey(req[p].id) \in req[p].keys
         /\ DependenciesHealthy(p))
        => \A q \in Creators(req[p].id) :
            /\ Status(p) = HTTP_200_OK
            /\ "items" \in DOMAIN Body(p)
            /\ Body(p)["items"] = req[q].body.invoice.items
            /\ "total" \in DOMAIN Body(p)
            /\ Body(p)["total"] = req[q].body.invoice.total

\* A draft whose client names a provider contact, with no contact to create.
ProviderLinked(body) ==
    /\ Falsy(body.contact)
    /\ MissingFields(body.invoice, InvoiceFields) = {}
    /\ DOMAIN body.invoice.client = {"id"}

\* C6: create_invoice on a valid draft with a provider-linked client, no call
\* failing, makes exactly one write to MongoDB and exactly one to the
\* provider, the one to MongoDB first, and answers 201.
C6_LinkedClientOneLocalOneRemoteWrite ==
    \A p \in Procs :
        (/\ Done(p)
         /\ req[p].op = "create"
         /\ ProviderLinked(req[p].body)
         /\ \A i \in DOMAIN log[p] : log[p][i].ok)
        => /\ Status(p) = HTTP_201_CREATED
           /\ Cardinality(Writes(p, "mongo")) = 1
           /\ Cardinality(Writes(p, "alegra")) = 1
           /\ \A i \in Writes(p, "mongo") : \A j \in Writes(p, "alegra") : i < j

\* No document matches the identifier when the invocation starts, neither
\* under the key the handler looks up nor under the string itself.
NoLocalRecord(p) ==
    /\ StrKey(req[p].id) \notin req[p].keys
    /\ ValidObjectIdString(req[p].id) => ObjectId(req[p].id) \notin req[p].keys

\* C8: delete_invoice on an identifier with no matching document (the secret
\* store and MongoDB answering) returns 404, calls the provider not once and
\* writes to neither store.
C8_DeleteOfAbsentIs404 ==
    \A p \in Procs :
        (/\ Done(p)
         /\ req[p].op = "delete"
         /\ NoLocalRecord(p)
         /\ DependenciesHealthy(p))
        => /\ Status(p) = HTTP_404_NOT_FOUND
           /\ CallsTo(p, "alegra") = {}
           /\ Writes(p, "mongo") = {}

\* delete_one's filter selects a document when the invocation starts.
MatchesAtStart(p) ==
    /\ ValidObjectIdString(req[p].id)
    /\ ObjectId(req[p].id) \in req[p].keys

C10_LocalDeleteAnswered200 ==
    \A p \in Procs :
        (/\ Done(p)
         /\ req[p].op = "delete"
         /\ \E i \in Calls(p, "mongo", "delete_one") : log[p][i].wrote)
        => Status(p) = HTTP_200_OK

\* C11: a get_invoice on any identifier (the secret store and MongoDB
\* answering) calls the provider not once when a document is stored under the
\* identifier, and calls the provider's get-invoice exactly once, and nothing
\* else of the provider, when none is.
C11_GetRemoteCallsByLocalPresence ==
    \A p \in Procs :
        (/\ Done(p)
         /\ req[p].op = "get"
         /\ DependenciesHealthy(p))
        => IF NoLocalRecord(p)
           THEN /\ Cardinality(Calls(p, "alegra", "get_invoice")) = 1
                /\ CallsTo(p, "alegra") = Calls(p, "alegra", "get_invoice")
           ELSE CallsTo(p, "alegra") = {}

\* The body of the response holds a record: a document of the collection
\* (key _id) or an invoice of the provider (key id).
HoldsRecord(body) == "_id" \in DOMAIN body \/ "id" \in DOMAIN body

\* C12: a get_invoice that found no document and whose provider call raised
\* answers 404, and a get_invoice answers 200 only with a record in the body.
C12_GetAbsentInBothIs404 ==
    \A p \in Procs :
        (Done(p) /\ req[p].op = "get")
        => /\ (\E i \in Calls(p, "alegra", "get_invoice") : ~log[p][i].ok)
                => Status(p) = HTTP_404_NOT_FOUND
           /\ Status(p) = HTTP_200_OK => HoldsRecord(Body(p))

\* The body of the update request passes Invoice(**body).
ValidUpdate(p) ==
    /\ req[p].op = "update"
    /\ MissingFields(req[p].body, UpdateInvoiceFields) = {}

\* C13: update_invoice with a valid body on an identifier with no matching
\* document (the secret store and MongoDB answering) returns 404, calls the
\* provider not once and writes to neither store.
C13_UpdateOfAbsentIs404 ==
    \A p \in Procs :
        (/\ Done(p)
         /\ ValidUpdate(p)
         /\ NoLocalRecord(p)
         /\ DependenciesHealthy(p))
        => /\ Status(p) = HTTP_404_NOT_FOUND
           /\ CallsTo(p, "alegra") = {}
           /\ Writes(p, "mongo") = {}
           /\ Writes(p, "alegra") = {}

\* C14: update_invoice with a valid body on a document that matches (no
\* handler records a provider id in a document, so none has one), no call
\* failing, writes the update to the collection, calls the provider not once
\* and answers in the success range with the outcome LocalOnly.
C14_UnsyncedUpdateIsLocalOnly ==
    \A p \in Procs :
        (/\ Done(p)
         /\ ValidUpdate(p)
         /\ MatchesAtStart(p)
         /\ \A i \in DOMAIN log[p] : log[p][i].ok)
        => /\ Writes(p, "mongo") # {}
           /\ CallsTo(p, "alegra") = {}
           /\ Status(p) \in SuccessRange
           /\ "outcome" \in DOMAIN Body(p)
           /\ Body(p)["outcome"] = "LocalOnly"

\* The other invocations that write to the document of p's identifier.
OtherWriters(p) ==
    {q \in Procs \ {p} : req[q].op \in {"update", "delete"} /\ req[q].id = req[p].id}

\* The document holds the fields of the draft of p's update.
HoldsDraft(doc, p) ==
    \A k \in UpdateInvoiceFields : doc[k] = UpdateInvoiceDict(req[p].body)[k]

\* C15: when update_invoice has written the update to the collection and its
\* provider call then did not update the provider (it raised, or the provider
\* answered with an error), the response is 200 with the outcome LocalOnly and
\* a reason, and the document still holds the draft (no other invocation
\* writing to it).
C15_RemoteUpdateFailureIsLocalOnly ==
    \A p \in Procs :
        (/\ Done(p)
         /\ req[p].op = "update"
         /\ \E i \in Calls(p, "mongo", "update_one") : log[p][i].wrote
         /\ \E i \in Calls(p, "alegra", "update_invoice") : ~log[p][i].wrote)
        => /\ Status(p) = HTTP_200_OK
           /\ "outcome" \in DOMAIN Body(p)
           /\ Body(p)["outcome"] = "LocalOnly"
           /\ "reason" \in DOMAIN Body(p)
           /\ OtherWriters(p) = {} =>
                \A d \in Matching(invoices, ObjectId(req[p].id)) : HoldsDraft(d, p)

\* The parts a create or update payload lacks: the contact or invoice object
\* itself, or required fields of one that is there.
LackingParts(p) ==
    IF req[p].op = "update" THEN MissingFields(req[p].body, UpdateInvoiceFields)
    ELSE (IF Falsy(req[p].body.contact) THEN {"contact"}
          ELSE MissingFields(req[p].body.contact, ContactFields))
         \cup (IF Falsy(req[p].body.invoice) THEN {"invoice"}
               ELSE MissingFields(req[p].body.invoice, InvoiceFields))

\* C16: a create or update request whose payload lacks a required part is
\* answered 400 with a message naming a part it lacks, and the invocation
\* calls no external system.
C16_InvalidPayloadIs400 ==
    \A p \in Procs :
        (/\ Done(p)
         /\ req[p].op \in {"create", "update"}
         /\ LackingParts(p) # {})
        => /\ Status(p) = HTTP_400_BAD_REQUEST
           /\ Body(p)["message"].fields # {}
           /\ Body(p)["message"].fields \subseteq LackingParts(p)
           /\ log[p] = <<>>

\* The invocation is over: it returned a response or raised.
Over(p) == pc[p] \in {"done", "raised"}

\* C17: in every handler, an invocation whose credential retrieval or store
\* connection failed is over with status 424 and has written to neither the
\* collections nor the provider.
C17_DependencyFailureBeforeAnyWrite ==
    \A p \in Procs :
        Failed(p, "secrets") # {}
        => /\ Done(p)
           /\ Status(p) = HTTP_424_FAILED_DEPENDENCY
           /\ Writes(p, "mongo") = {}
           /\ Writes(p, "alegra") = {}

\* C18: every listing invocation that returned with no call failing returned
\* a response with status 200 whose body holds the documents found in the
\* collection under one key and the provider's invoices under another.
C18_ListingHasBothCollections ==
    \A p \in Procs :
        (/\ Done(p)
         /\ req[p].op \in {"get_invoices", "get_all_invoices"}
         /\ \A i \in DOMAIN log[p] : log[p][i].ok)
        => /\ "statusCode" \in DOMAIN resp[p]
           /\ Status(p) = HTTP_200_OK
           /\ {"mongodb_invoices", "alegra_invoices"} \subseteq DOMAIN Body(p)
           /\ Body(p)["mongodb_invoices"] = {DumpDoc(d) : d \in loc[p].invoices}

\* C19: in every invocation each endpoint of the provider is called at most
\* once, and a provider call that did not do what it was made for (it raised,
\* or it changed nothing at the provider) is the last call of the invocation,
\* which is over.
C19_NoRetryAndFailureIsTerminal ==
    \A p \in Procs :
        /\ \A i, j \in CallsTo(p, "alegra") : log[p][i].op = log[p][j].op => i = j
        /\ \A i \in CallsTo(p, "alegra") :
                (~log[p][i].ok \/ ~log[p][i].wrote)
                => i = Len(log[p]) /\ Over(p)

\* An update_invoice ended by a provider call that raised after the request
\* was sent.
C19_Witness ==
    \E p \in Procs :
        /\ Over(p)
        /\ req[p].op = "update"
        /\ \E i \in Calls(p, "alegra", "update_invoice") :
                ~log[p][i].ok /\ log[p][i].sent

\* Invocation p makes call op in this step and the call changes the system.
Lands(p, op) ==
    /\ Len(log'[p]) = Len(log[p]) + 1
    /\ log'[p][Len(log'[p])].op = op
    /\ log'[p][Len(log'[p])].wrote

\* The provider's record holds what p's update sent.
RemoteHoldsDraft(r, p) ==
    r.data = AlegraInvoiceData(UpdateInvoiceDict(req[p].body))

\* C20: each store takes the write that lands last, and the two stores do so
\* independently: a step in which an update_invoice writes to the collection
\* leaves the document holding that invocation's draft and the provider as it
\* was, and a step in which its provider call updates the provider leaves the
\* provider's record holding that invocation's draft and the collection as it
\* was, whatever another invocation wrote before.
C20_LastWriteWinsPerStore ==
    [][\A p \in Procs :
        /\ Lands(p, "update_one")
            => /\ \A d \in Matching(invoices', ObjectId(req'[p].id)) : HoldsDraft(d, p)'
               /\ alegraInvoices' = alegraInvoices
        /\ Lands(p, "update_invoice")
            => /\ \A r \in alegraInvoices' : r.id = req[p].id => RemoteHoldsDraft(r, p)
               /\ invoices' = invoices
      ]_vars

\* Two update_invoice invocations on the same identifier are over, no call of
\* either failed, every write landed, and the document holds the draft of one
\* while the provider's record holds the draft of the other.
C20_Witness ==
    \E p, q \in Procs :
        /\ p # q
        /\ Done(p) /\ Done(q)
        /\ req[p].op = "update" /\ req[q].op = "update"
        /\ req[p].id = req[q].id
        /\ \A i \in DOMAIN log[p] : log[p][i].ok /\ log[p][i].wrote
        /\ \A i \in DOMAIN log[q] : log[q][i].ok /\ log[q][i].wrote
        /\ Len(log[p]) = 2 /\ Len(log[q]) = 2
        /\ \E d \in Matching(invoices, ObjectId(req[p].id)) :
                HoldsDraft(d, q) /\ ~HoldsDraft(d, p)
        /\ \E r \in alegraInvoices :
                /\ r.id = req[p].id
                /\ RemoteHoldsDraft(r, p) /\ ~RemoteHoldsDraft(r, q)

\* The create_invoice invocations whose provider call created contact id and
\* which inserted the contact afterwards.
ContactCreators(id) ==
    {p \in Procs :
        /\ req[p].op = "create"
        /\ loc[p].alegra_contact_id = id
        /\ \E i \in Calls(p, "alegra", "create_contact") :
            /\ log[p][i].ok /\ log[p][i].wrote
            /\ \E j \in Calls(p, "mongo", "insert_contact") : i < j /\ log[p][j].wrote}

\* C21: every document of the contacts collection is keyed by the id of a
\* contact the provider holds, which a successful create-contact call of a
\* create_invoice invocation returned before that invocation inserted the
\* document; and an invocation writes a contact to the collection at most
\* once.
C21_ContactsKeyedByProviderId ==
    /\ \A d \in contacts :
        /\ d._id \in alegraContacts
        /\ ContactCreators(d._id) # {}
    /\ \A p \in Procs :
        Cardinality({i \in Calls(p, "mongo", "insert_contact") : log[p][i].wrote}) <= 1

\* A create_invoice invocation has inserted its contact.
C21_Witness ==
    \E p \in Procs :
        /\ contacts # {}
        /\ \E i \in Calls(p, "mongo", "insert_contact") : log[p][i].wrote

\* C22: whenever update_invoice or delete_invoice has called the provider,
\* the identifier it sent is not the identifier of the document in the
\* collection (the locally generated one).
C22_ProviderTargetIsNotLocalId ==
    \A p \in Procs :
        (/\ req[p].op \in {"update", "delete"}
         /\ \E i \in CallsTo(p, "alegra") : log[p][i].sent)
        => ~(/\ ValidObjectIdString(invoice_id(p))
             /\ ObjectId(invoice_id(p)) \in req[p].keys)

\* C23: update_invoice with a valid body on a matching document, no call
\* failing, calls the provider's update exactly once after its write to the
\* collection and answers 200, whether the items list is empty or not.
C23_ValidUpdateReachesProvider ==
    \A p \in Procs :
        (/\ Done(p)
         /\ ValidUpdate(p)
         /\ MatchesAtStart(p)
         /\ \A i \in DOMAIN log[p] : log[p][i].ok)
        => /\ Writes(p, "mongo") # {}
           /\ Cardinality(Calls(p, "alegra", "update_invoice")) = 1
           /\ Status(p) = HTTP_200_OK

\* The message the handler passes to data_response on its success path.
HandlerMessage(op) ==
    CASE op = "create" -> Msg("Invoice created successfully")
      [] op = "delete" -> Msg("Invoice deleted successfully")
      [] op = "update" -> Msg("Invoice updated successfully")
      [] op = "get" -> Msg("Invoice retrieved successfully")
      [] OTHER -> Msg("Invoices retrieved successfully")

\* C24: every response in the success range that followed a provider call
\* carries under the message key the message of the handler.
C24_HandlerMessageSurvivesMerge ==
    \A p \in Procs :
        (/\ Done(p)
         /\ req[p].op \in {"create", "delete", "update", "get"}
         /\ CallsTo(p, "alegra") # {}
         /\ Status(p) \in SuccessRange)
        => Body(p)["message"] = HandlerMessage(req[p].op)

\* The sum over the items of price times quantity less the discount (an item
\* without a discount field has none).
RECURSIVE ItemsTotal(_)
ItemsTotal(items) ==
    IF items = <<>> THEN 0
    ELSE LET item == Head(items) IN
         item.price * item.quantity
            - (IF "discount" \in DOMAIN item THEN item.discount ELSE 0)
            + ItemsTotal(Tail(items))

\* C25: every document of the invoices collection has a total, and it is the
\* total of its items.
C25_StoredTotalsMatchItems ==
    \A d \in invoices :
        /\ "total" \in DOMAIN d
        /\ d.total = ItemsTotal(d.items)

\* C26: no invocation ends with an exception leaving the handler, and every
\* invocation that returned handed back a response with a status code.
C26_EveryInvocationReturnsStatus ==
    \A p \in Procs :
        /\ pc[p] # "raised"
        /\ Done(p) => /\ "statusCode" \in DOMAIN resp[p]
                      /\ Status(p) \in 200..599

\* C27: once a delete_invoice has removed the document of an identifier, the
\* collection holds no document under it, and an update_invoice with a valid
\* body on that identifier that found the document gone (the secret store and
\* MongoDB answering) answered 404, wrote nothing and called the provider not
\* once.
C27_DeletedStaysAbsent ==
    \A p \in Procs :
        (/\ req[p].op = "delete"
         /\ \E i \in Calls(p, "mongo", "delete_one") : log[p][i].wrote)
        => /\ Matching(invoices, ObjectId(req[p].id)) = {}
           /\ \A q \in Procs :
                (/\ Over(q)
                 /\ ValidUpdate(q)
                 /\ req[q].id = req[p].id
                 /\ ObjectId(req[q].id) \notin req[q].keys
                 /\ DependenciesHealthy(q))
                => /\ Status(q) = HTTP_404_NOT_FOUND
                   /\ Writes(q, "mongo") = {}
                   /\ CallsTo(q, "alegra") = {}

\* An update_invoice that started after a delete_invoice removed the document
\* of its identifier is over, MongoDB having answered its update_one.
C27_Witness ==
    \E p, q \in Procs :
        /\ req[p].op = "delete"
        /\ \E i \in Calls(p, "mongo", "delete_one") : log[p][i].wrote
        /\ Over(q)
        /\ ValidUpdate(q)
        /\ req[q].id = req[p].id
        /\ ObjectId(req[q].id) \notin req[q].keys
        /\ \E i \in Calls(q, "mongo", "update_one") : log[q][i].ok

====
